---- MODULE Spec2Model ----
(***************************************************************************)
(* Model of the EPG pipeline of TVH-IPTV-Config (src/backend/epgs.py):     *)
(* ingestion of XMLTV sources into the relational store                    *)
(* (import_epg_data and the functions it calls, delete_epg) and the        *)
(* online enrichment of programmes (update_programmes_concurrently), the  *)
(* synthesis of the guide file (build_custom_epg), and of the channel      *)
(* routes of src/backend/api/routes_channels.py.                           *)
(***************************************************************************)
EXTENDS Integers, Sequences, FiniteSets, TLC

(***************************************************************************)
(* Bounds of the model.                                                    *)
(***************************************************************************)
NumSources == 2      \* configured Epg rows, ids 1..NumSources
MaxRuns == 2         \* callers that may run import tasks side by side
MaxImports == 2      \* import_epg_data invocations in one behaviour, callers side by side
SeqImports == 3      \* import_epg_data invocations in one behaviour, one caller
MaxBatch == 2        \* programmes in a batch handed to update_programmes_concurrently
GateExtra == 1       \* programmes beyond the semaphore's permits in a large batch
MaxCalls == 2        \* calls of update_programmes_concurrently in one behaviour
NumChannels == 3     \* Channel rows, ids 1..NumChannels
MaxBuilds == 2       \* runs of build_custom_epg in one behaviour
BuildImports == 2    \* import_epg_data invocations in a behaviour with builds
BulkExtra == 1       \* bulk documents hold up to FlushChunk + 3 + BulkExtra programmes
ApiSlots == 2        \* handlers of channel routes that may run side by side
MaxApiRequests == 3  \* requests to channel routes in one behaviour
MaxIds == 2          \* channel ids in the body of a bulk request

(***************************************************************************)
(* Program constants.                                                      *)
(***************************************************************************)
FlushChunk == 1000   \* epgs.py:229  if len(items) > 1000
SemaphoreLimit == 10 \* epgs.py:823  asyncio.Semaphore(10)

Sources == 1..NumSources
Runs == 1..MaxRuns

NoFile == [name |-> "none", n |-> 0]

(***************************************************************************)
(* XMLTV documents an upstream URL can serve.  A document is named by a    *)
(* record; DocParses, DocChannels and DocProgrammes give what the parser   *)
(* (ET.fromstring / ET.parse, iterfind) reads from it.                     *)
(*   D1:   channels ch1, ch2;  programmes on ch1, zz (undeclared), ch2, ch1*)
(*   D2:   channel  ch1;       programmes on ch1, ch2 (undeclared), ch1    *)
(*   Dbad: malformed or truncated document                                 *)
(*   bulk(n): channel ch1; n programmes, the second one on undeclared zz   *)
(* ch1 of D1 and of the bulk documents has an <icon> child, ch2 of D1 and  *)
(* ch1 of D2 have none.  The programme on ch2 in D1 has no <title> child,  *)
(* the last programme of D2 has a <title> child without text.              *)
(***************************************************************************)
D1 == [name |-> "D1", n |-> 0]
D2 == [name |-> "D2", n |-> 0]
Dbad == [name |-> "Dbad", n |-> 0]
Bulk(n) == [name |-> "bulk", n |-> n]

SmallDocs == {D1, D2, Dbad}
BulkSizes == {0, 1, 2, 3} \cup (FlushChunk..(FlushChunk + 3 + BulkExtra))
BulkDocs == {Bulk(n) : n \in BulkSizes}

DocParses(d) == d.name # "Dbad"

DocChannels(d) ==
  IF d.name = "D1" THEN <<"ch1", "ch2">>
  ELSE IF d.name = "D2" THEN <<"ch1">>
  ELSE IF d.name = "bulk" THEN <<"ch1">>
  ELSE <<>>

\* None, as a column value or a missing attribute / element
Null == "null"

\* the src attribute of the <icon> child of every <channel> element, Null where the
\* element has no <icon> child
DocChannelIcons(d) ==
  IF d.name = "D1" THEN <<"http://up/ch1.png", Null>>
  ELSE IF d.name = "D2" THEN <<Null>>
  ELSE IF d.name = "bulk" THEN <<"http://up/ch1.png">>
  ELSE <<>>

\* a start attribute: a fixed-width local time followed by a zone offset, compared as text
StartAt(t, off) == [t |-> t, off |-> off]

\* a <programme> element of an upstream document: the channel and start attributes, the
\* text of <title>, the texts of the <category> children in order, and the <rating> child
\* with its system attribute and the text of its <value> child
NoRating == [present |-> FALSE, system |-> Null, value |-> Null]

Rating(system, value) == [present |-> TRUE, system |-> system, value |-> value]

Elem(ch, start, title, cats, rating) ==
  [channel |-> ch, start |-> start, title |-> title, categories |-> cats, rating |-> rating]

DocProgrammes(d) ==
  IF d.name = "D1"
  THEN <<Elem("ch1", StartAt(3, 0), "late", <<"Film", "Drama">>, Rating("MPAA", "PG")),
         Elem("zz", StartAt(1, 0), "lost", <<>>, NoRating),
         Elem("ch2", StartAt(1, 0), Null, <<>>, NoRating),
         Elem("ch1", StartAt(1, 0), "early", <<"News">>, Rating(Null, "PG"))>>
  ELSE IF d.name = "D2"
  THEN <<Elem("ch1", StartAt(2, 1), "second", <<"Film">>, NoRating),
         Elem("ch2", StartAt(1, 0), "lost", <<>>, NoRating),
         Elem("ch1", StartAt(2, 0), "", <<>>, Rating("MPAA", "PG"))>>
  ELSE IF d.name = "bulk"
  THEN [i \in 1..d.n |-> Elem(IF i = 2 THEN "zz" ELSE "ch1", StartAt(i, 0), "bulk", <<>>, NoRating)]
  ELSE <<>>

(***************************************************************************)
(* Helpers on sets and sequences.                                          *)
(***************************************************************************)
Range(f) == {f[x] : x \in DOMAIN f}

SetMax(S) == CHOOSE x \in S : \A y \in S : y <= x

SetMin(S) == CHOOSE x \in S : \A y \in S : x <= y

RECURSIVE SortedSeq(_)
SortedSeq(S) == IF S = {} THEN <<>> ELSE <<SetMin(S)>> \o SortedSeq(S \ {SetMin(S)})


(***************************************************************************)
(* State.                                                                  *)
(*   epgs         ids of the Epg rows (configured sources)                 *)
(*   epgChannels  EpgChannels rows  [id, epg_id, channel_id, icon_url,     *)
(*                batch]                                                   *)
(*   programmes   EpgChannelProgrammes rows                                *)
(*                [epg_channel_id, channel_id, idx, data, batch, src]      *)
(*   file         cache/epgs/<epg_id>.xml: the document it holds, or NoFile*)
(*   served       the documents the upstream URLs may answer with          *)
(*   quota        how many import_epg_data invocations the behaviour holds *)
(*   runs         one record per caller of import_epg_data /               *)
(*                import_epg_data_for_all_epgs: its position and locals    *)
(*   nextBatch    number of the next import_epg_data invocation            *)
(*   history      per source, the uninterrupted completed imports (last 2) *)
(*   en           the enrichment run: settings, the batch handed to        *)
(*                update_programmes_concurrently, its tasks, the cache,    *)
(*                the semaphore and the lock                               *)
(*   bd           the Channel rows, the run of build_custom_epg with its   *)
(*                locals, the file epg.xml, and the ids delete_epg removed *)
(*   api          the handlers of the channel routes that are under way:   *)
(*                the calls each has still to make, the calls it has made  *)
(*                and its response; the length of the background queue     *)
(* batch, src, idx, pre, excl, cause, ingested, plan and history record    *)
(* what happened; the code's decisions never read them.                    *)
(***************************************************************************)
VARIABLES epgs, epgChannels, programmes, file, served, quota, runs, nextBatch, history, en, bd, api

ingestVars == <<epgs, epgChannels, programmes, file, served, quota, runs, nextBatch, history>>

vars == <<epgs, epgChannels, programmes, file, served, quota, runs, nextBatch, history, en, bd, api>>

EmptyMap == [x \in {} |-> 0]

NoRows == [chans |-> {}, progs |-> {}]

IdleRun ==
  [pc |-> "idle", todo |-> <<>>, plan |-> <<>>, chanOk |-> TRUE, chanList |-> <<>>,
   chanMap |-> EmptyMap, tree |-> NoFile, doc |-> NoFile, batch |-> 0, pre |-> NoRows, excl |-> TRUE,
   cause |-> "none", failedOn |-> 0, ingested |-> {}]

\* select(EpgChannels.id).where(EpgChannels.epg_id == epg_id)
ChannelIdsOf(s) == {c.id : c \in {x \in epgChannels : x.epg_id = s}}

\* the channel rows of a source and the programme rows joined to them
RowsOf(s) ==
  [chans |-> {c \in epgChannels : c.epg_id = s},
   progs |-> {p \in programmes : p.epg_channel_id \in ChannelIdsOf(s)}]

\* SQLite rowid allocation of an INTEGER PRIMARY KEY: largest id in the table plus one
LastId(rows) == IF rows = {} THEN 0 ELSE SetMax({c.id : c \in rows})

\* a clear that leaves the programme rows in place
ProgrammesAfterClearKeepsAll(s) == programmes

\* delete(EpgChannelProgrammes).where(epg_channel_id.in_(channel_ids)) and
\* delete(EpgChannels).where(id.in_(channel_ids)), shared by clear_epg_channel_data and delete_epg
ProgrammesAfterClear(s) == {p \in programmes : p.epg_channel_id \notin ChannelIdsOf(s)}

ChannelsAfterClear(s) == {c \in epgChannels : c.id \notin ChannelIdsOf(s)}

\* icon = ''; if icon_elem is not None: icon = icon_elem.attrib.get('src', '')
ChannelIcon(src) == IF src = Null THEN "" ELSE src

\* store_epg_channels: delete(EpgChannels).where(epg_id == epg_id), then bulk insert of one row
\* per <channel> element in document order
ChannelsAfterStore(s, list, icons, b) ==
  LET kept == {c \in epgChannels : c.epg_id # s}
      base == LastId(kept)
  IN kept \cup {[id |-> base + i, epg_id |-> s, channel_id |-> list[i],
                 icon_url |-> ChannelIcon(icons[i]), batch |-> b] : i \in DOMAIN list}

\* .filter(and_(channel_id == channel_id, epg_id == epg_id)).first()
MatchingChannels(s, ch) == {c \in epgChannels : c.epg_id = s /\ c.channel_id = ch}

FirstChannelId(s, ch) == SetMin({c.id : c \in MatchingChannels(s, ch)})

\* channel_ids[channel_id] = epg_channel.id for every entry of channel_id_list
BuildChannelIds(s, list) == [ch \in Range(list) |-> FirstChannelId(s, ch)]

\* a text column holding JSON: None, or json.dumps of a list of strings, which json.loads
\* gives back in order
NullText == [null |-> TRUE, json |-> <<>>]

JsonDumps(list) == [null |-> FALSE, json |-> list]

JsonLoads(text) == text.json

\* the columns of an EpgChannelProgrammes row read from a <programme> element: attributes
\* with attrib.get, texts with findtext, the non-empty category texts in order (stored as
\* JSON text, None for an empty list), and the rating's system attribute and value text
ParseProgramme(el) ==
  LET cats == SelectSeq(el.categories, LAMBDA c : c # "")
  IN [start |-> el.start,
      title |-> el.title,
      categories |-> IF cats # <<>> THEN JsonDumps(cats) ELSE NullText,
      rating_system |-> IF el.rating.present THEN el.rating.system ELSE Null,
      rating_value |-> IF el.rating.present THEN el.rating.value ELSE Null]

\* an iteration that empties a full list without handing it to bulk_save_objects
LoopBodyDropsChunk(progs, chanMap, st, i) ==
  LET flush == Len(st.items) > FlushChunk
      items1 == IF flush THEN <<>> ELSE st.items
      ch == progs[i].channel
  IN IF ch \in DOMAIN chanMap
     THEN [items |-> Append(items1, [epg_channel_id |-> chanMap[ch], channel_id |-> ch, idx |-> i,
                                     data |-> ParseProgramme(progs[i])]),
           saved |-> st.saved]
     ELSE [items |-> items1, saved |-> st.saved]

\* one iteration of the loop of parse_and_save_programmes over programme i: a list of more
\* than FlushChunk items is handed to bulk_save_objects and emptied, then the programme is
\* appended when its channel attribute is a key of channel_ids
LoopBody(progs, chanMap, st, i) ==
  LET flush == Len(st.items) > FlushChunk
      items1 == IF flush THEN <<>> ELSE st.items
      saved1 == IF flush THEN st.saved \o st.items ELSE st.saved
      ch == progs[i].channel
  IN IF ch \in DOMAIN chanMap
     THEN [items |-> Append(items1, [epg_channel_id |-> chanMap[ch], channel_id |-> ch, idx |-> i,
                                     data |-> ParseProgramme(progs[i])]),
           saved |-> saved1]
     ELSE [items |-> items1, saved |-> saved1]

\* the iterations lo..hi in order, started in st.  The range is halved and the first half is
\* evaluated before the second is entered, which keeps the evaluation shallow.
RECURSIVE LoopOver(_, _, _, _, _)
LoopOver(progs, chanMap, st, lo, hi) ==
  IF lo > hi THEN st
  ELSE IF lo = hi THEN LoopBody(progs, chanMap, st, lo)
  ELSE LET mid == (lo + hi) \div 2
           first == LoopOver(progs, chanMap, st, lo, mid)
       IN IF Len(first.items) >= 0 THEN LoopOver(progs, chanMap, first, mid + 1, hi) ELSE first

\* parse_and_save_programmes: the loop, then bulk_save_objects(items) and commit
ParseAndSaveProgrammes(d, chanMap) ==
  LET progs == DocProgrammes(d)
      st == LoopOver(progs, chanMap, [items |-> <<>>, saved |-> <<>>], 1, Len(progs))
  IN st.saved \o st.items

ProgrammeRows(d, chanMap, b, s) ==
  LET saved == ParseAndSaveProgrammes(d, chanMap)
  IN {[epg_channel_id |-> saved[k].epg_channel_id, channel_id |-> saved[k].channel_id,
       idx |-> saved[k].idx, data |-> saved[k].data, batch |-> b, src |-> s] : k \in DOMAIN saved}


(***************************************************************************)
(* Ingestion: import_epg_data, step by step.  Every step is one committed  *)
(* transaction of its own (clear_epg_channel_data, store_epg_channels) or  *)
(* one read / one write of store_epg_programmes, so other callers can run  *)
(* between any two of them.                                                *)
(***************************************************************************)
MidPcs == {"download", "clear", "channels", "lookup", "save"}

EndPcs == {"idle", "done", "failed"}

Cur(r) == Head(runs[r].todo)

ActiveOn(q, s) == runs[q].pc \in MidPcs /\ runs[q].todo # <<>> /\ Head(runs[q].todo) = s

NoActive(s) == \A q \in Runs : ~ActiveOn(q, s)

\* an import of s that is in progress, or that ended in an exception
Concerns(q, s) == runs[q].pc \in MidPcs \cup {"failed"} /\ runs[q].todo # <<>> /\ Head(runs[q].todo) = s

\* runs with r replaced by rec, every other import of s marked as no longer alone on s
WithRun(r, rec, s, disturb) ==
  [q \in Runs |-> IF q = r THEN rec
                  ELSE IF disturb /\ Concerns(q, s) THEN [runs[q] EXCEPT !.excl = FALSE]
                  ELSE runs[q]]

\* the import of the current source returned: the batch loop moves on, or the call returns
Completed(rec) ==
  [rec EXCEPT !.ingested = @ \cup {Head(rec.todo)},
              !.todo = Tail(@),
              !.pc = IF Tail(rec.todo) = <<>> THEN "done" ELSE "config",
              !.chanOk = TRUE, !.chanList = <<>>, !.chanMap = EmptyMap, !.tree = NoFile,
              !.doc = NoFile, !.pre = NoRows, !.batch = 0, !.excl = TRUE]

\* an exception leaves import_epg_data; import_epg_data_for_all_epgs does not catch it
Raised(rec, why) ==
  [rec EXCEPT !.pc = "failed", !.cause = why, !.failedOn = Head(rec.todo),
              !.chanOk = TRUE, !.chanList = <<>>, !.chanMap = EmptyMap, !.tree = NoFile]

HistoryAfter(r, s, ok) ==
  IF ok /\ runs[r].excl
  THEN [history EXCEPT ![s] =
          (IF Len(@) = 2 THEN <<@[2]>> ELSE @) \o <<[doc |-> runs[r].doc, batch |-> runs[r].batch]>>]
  ELSE [history EXCEPT ![s] = <<>>]

\* the lowest free caller slot; which caller runs a task is immaterial
FreeRun(r) == runs[r].pc \in EndPcs /\ \A q \in Runs : q < r => runs[q].pc \notin EndPcs

\* epg = await read_config_one_epg(epg_id); epg['url'], reached with the locals rec
ReadConfigOneEpg(r, rec) ==
  LET s == Head(rec.todo)
  IN IF s \notin epgs
     THEN \* read_config_one_epg returns {} and epg['url'] raises KeyError
          /\ runs' = [runs EXCEPT ![r] = Raised(rec, "config")]
          /\ UNCHANGED nextBatch
     ELSE /\ nextBatch <= quota
          /\ runs' = WithRun(r, [rec EXCEPT !.pc = "download", !.batch = nextBatch,
                                            !.pre = RowsOf(s), !.excl = NoActive(s)],
                             s, TRUE)
          /\ nextBatch' = nextBatch + 1

\* a caller invokes import_epg_data(config, s)
StartImport(r, s) ==
  /\ FreeRun(r)
  /\ nextBatch <= quota
  /\ ReadConfigOneEpg(r, [IdleRun EXCEPT !.todo = <<s>>, !.plan = <<s>>])
  /\ UNCHANGED <<epgs, epgChannels, programmes, file, served, quota, history, en, bd, api>>

\* a caller invokes import_epg_data_for_all_epgs(config): for epg in db.session.query(Epg).all()
StartImportAll(r) ==
  /\ FreeRun(r)
  /\ nextBatch <= quota
  /\ LET all == SortedSeq(epgs)
     IN runs' = [runs EXCEPT ![r] = [IdleRun EXCEPT !.pc = IF all = <<>> THEN "done" ELSE "config",
                                                    !.todo = all, !.plan = all]]
  /\ UNCHANGED <<epgs, epgChannels, programmes, file, served, quota, nextBatch, history, en, bd, api>>

\* import_epg_data_for_all_epgs enters import_epg_data for the next Epg row of its list
ReadConfig(r) ==
  /\ runs[r].pc = "config"
  /\ ReadConfigOneEpg(r, runs[r])
  /\ UNCHANGED <<epgs, epgChannels, programmes, file, served, quota, history, en, bd, api>>

\* await download_xmltv_epg(epg['url'], xmltv_file): the cache file now holds the served document
Download(r) ==
  /\ runs[r].pc = "download"
  /\ \E d \in served :
       /\ file' = [file EXCEPT ![Cur(r)] = d]
       /\ runs' = [runs EXCEPT ![r].pc = "clear", ![r].doc = d]
  /\ UNCHANGED <<epgs, epgChannels, programmes, served, quota, nextBatch, history, en, bd, api>>

\* the request fails: raise_for_status() before the file is opened (file untouched), or the
\* stream breaks while chunks are being written (file truncated)
DownloadFail(r) ==
  /\ runs[r].pc = "download"
  /\ \E truncated \in BOOLEAN :
       file' = IF truncated THEN [file EXCEPT ![Cur(r)] = Dbad] ELSE file
  /\ runs' = [runs EXCEPT ![r] = Raised(@, "fetch")]
  /\ history' = HistoryAfter(r, Cur(r), FALSE)
  /\ UNCHANGED <<epgs, epgChannels, programmes, served, quota, nextBatch, en, bd, api>>

\* await clear_epg_channel_data(epg_id)
ClearEpgChannelData(r) ==
  /\ runs[r].pc = "clear"
  /\ programmes' = ProgrammesAfterClear(Cur(r))
  /\ epgChannels' = ChannelsAfterClear(Cur(r))
  /\ runs' = [runs EXCEPT ![r].pc = "channels"]
  /\ UNCHANGED <<epgs, file, served, quota, nextBatch, history, en, bd, api>>

\* channel_id_list = await store_epg_channels(config, epg_id)
StoreEpgChannels(r) ==
  /\ runs[r].pc = "channels"
  /\ LET s == Cur(r)
         d == file[s]
     IN IF d = NoFile
        THEN \* return False
             /\ runs' = [runs EXCEPT ![r].pc = "lookup", ![r].chanOk = FALSE]
             /\ UNCHANGED <<epgChannels, history>>
        ELSE IF ~DocParses(d)
        THEN \* ET.fromstring raises before the transaction is opened
             /\ runs' = [runs EXCEPT ![r] = Raised(@, "parse")]
             /\ history' = HistoryAfter(r, s, FALSE)
             /\ UNCHANGED epgChannels
        ELSE /\ epgChannels' = ChannelsAfterStore(s, DocChannels(d), DocChannelIcons(d), runs[r].batch)
             /\ runs' = [runs EXCEPT ![r].pc = "lookup", ![r].chanList = DocChannels(d)]
             /\ UNCHANGED history
  /\ UNCHANGED <<epgs, programmes, file, served, quota, nextBatch, en, bd, api>>

\* store_epg_programmes, first half: the file check, ET.parse and the channel_ids lookup loop
LookupChannelIds(r) ==
  /\ runs[r].pc = "lookup"
  /\ LET s == Cur(r)
         d == file[s]
     IN IF d = NoFile
        THEN \* return False: import_epg_data returns normally
             /\ runs' = [runs EXCEPT ![r] = Completed(@)]
             /\ history' = HistoryAfter(r, s, TRUE)
        ELSE IF ~DocParses(d)
        THEN /\ runs' = [runs EXCEPT ![r] = Raised(@, "parse")]
             /\ history' = HistoryAfter(r, s, FALSE)
        ELSE IF ~runs[r].chanOk \/ \E i \in DOMAIN runs[r].chanList :
                                       MatchingChannels(s, runs[r].chanList[i]) = {}
        THEN \* iterating False, or epg_channel is None: TypeError / AttributeError
             /\ runs' = [runs EXCEPT ![r] = Raised(@, "error")]
             /\ history' = HistoryAfter(r, s, FALSE)
        ELSE /\ runs' = [runs EXCEPT ![r].pc = "save", ![r].tree = d,
                                     ![r].chanMap = BuildChannelIds(s, runs[r].chanList)]
             /\ UNCHANGED history
  /\ UNCHANGED <<epgs, epgChannels, programmes, file, served, quota, nextBatch, en, bd, api>>

\* store_epg_programmes, second half: the programme loop, bulk_save_objects and commit
SaveProgrammes(r) ==
  /\ runs[r].pc = "save"
  /\ programmes' = programmes \cup ProgrammeRows(runs[r].tree, runs[r].chanMap, runs[r].batch, Cur(r))
  /\ runs' = [runs EXCEPT ![r] = Completed(@)]
  /\ history' = HistoryAfter(r, Cur(r), TRUE)
  /\ UNCHANGED <<epgs, epgChannels, file, served, quota, nextBatch, en, bd, api>>

\* the storage engine raises in one of the three writing steps: that step's transaction is
\* rolled back, the transactions committed before it stay
StorageError(r) ==
  /\ runs[r].pc \in {"clear", "channels", "save"}
  /\ runs' = [runs EXCEPT ![r] = Raised(@, "storage")]
  /\ history' = HistoryAfter(r, Cur(r), FALSE)
  /\ UNCHANGED <<epgs, epgChannels, programmes, file, served, quota, nextBatch, en, bd, api>>

\* delete_epg(config, epg_id)
DeleteEpg(s) ==
  /\ s \in epgs
  /\ programmes' = ProgrammesAfterClear(s)
  /\ epgChannels' = ChannelsAfterClear(s)
  /\ epgs' = epgs \ {s}
  /\ file' = [file EXCEPT ![s] = NoFile]
  /\ runs' = [q \in Runs |-> IF Concerns(q, s) THEN [runs[q] EXCEPT !.excl = FALSE] ELSE runs[q]]
  /\ history' = [history EXCEPT ![s] = <<>>]
  /\ bd' = [bd EXCEPT !.deleted = @ \cup {s}]
  /\ UNCHANGED <<served, quota, nextBatch, en, api>>

(***************************************************************************)
(* Enrichment: update_programmes_concurrently and the tasks it gathers.    *)
(* The tasks run on one event loop: a task runs without interruption up to *)
(* its next suspension, which is a wait for a semaphore permit or an       *)
(* outbound request.  Acquiring the free lock or a free permit does not    *)
(* suspend.                                                                *)
(***************************************************************************)
Truthy(v) == v \notin {Null, ""}

Titles == {"A", "B"}

\* an EpgChannelProgrammes row as the enrichment reads it; categories is JSON text or None
Programme(t, sub, desc, icon, cats) ==
  [title |-> t, sub_title |-> sub, desc |-> desc, icon_url |-> icon, categories |-> cats]

ProgrammeInputs ==
  {Programme("A", Null, Null, Null, "[]"),
   Programme("B", Null, Null, Null, "[]"),
   Programme("A", Null, "a synopsis", Null, "[]"),
   Programme("A", "", Null, Null, "[]"),
   Programme("A", Null, Null, "http://icon", "[]"),
   Programme("A", Null, Null, Null, Null)}

RECURSIVE SeqsUpTo(_, _)
SeqsUpTo(S, n) ==
  IF n = 0 THEN {<<>>}
  ELSE SeqsUpTo(S, n - 1) \cup {Append(q, x) : q \in {y \in SeqsUpTo(S, n - 1) : Len(y) = n - 1}, x \in S}

SmallBatches == SeqsUpTo(ProgrammeInputs, MaxBatch) \ {<<>>}

\* the programmes of a channel with one programme
SingleBatches == {<<p>> : p \in ProgrammeInputs}

\* batches of more programmes than the semaphore has permits, all without subtitle,
\* description and icon, titles alternating
GateBatches ==
  {[i \in 1..n |-> Programme(IF i % 2 = 1 THEN "A" ELSE "B", Null, Null, Null, "[]")] :
     n \in (SemaphoreLimit + 1)..(SemaphoreLimit + GateExtra)}

\* what a provider request can end in: an exception (connection error, timeout, a result
\* page without a second image), no result (status other than 200, empty result list),
\* or a result
AnsError == [kind |-> "error"]

AnsNone == [kind |-> "none"]

TmdbFull ==
  [kind |-> "result", title |-> "tmdb title", overview |-> "tmdb overview", poster_path |-> "/p.jpg"]

TmdbNoPoster ==
  [kind |-> "result", title |-> "tmdb title", overview |-> "tmdb overview", poster_path |-> Null]

GoogleImage == [kind |-> "result", url |-> "http://image"]

AllAnswers == [tmdb |-> {AnsError, AnsNone, TmdbFull, TmdbNoPoster},
               google |-> {AnsError, AnsNone, GoogleImage}]

GateAnswers == [tmdb |-> {AnsNone}, google |-> {AnsNone}]

\* f"https://image.tmdb.org/t/p/w500{tmdb_data.get('poster_path')}"
PosterUrl(path) ==
  IF path = Null THEN "https://image.tmdb.org/t/p/w500None"
  ELSE "https://image.tmdb.org/t/p/w500/p.jpg"

IdleEnrichment ==
  [phase |-> "idle",
   settings |-> [tmdb |-> FALSE, google |-> FALSE],
   inputs |-> {}, answers |-> [tmdb |-> {}, google |-> {}],
   progs |-> <<>>, orig |-> <<>>, tpc |-> <<>>,
   cache |-> [tmdb |-> EmptyMap, google |-> EmptyMap],
   sem |-> 0, lock |-> 0,
   reqs |-> [tmdb |-> [t \in Titles |-> 0], google |-> [t \in Titles |-> 0]],
   called |-> <<>>,
   more |-> {}, calls |-> 0, run |-> 1, completed |-> {}, late |-> {}]

\* cache[provider][title] = value
CachePut(m, t, v) == [x \in (DOMAIN m) \cup {t} |-> IF x = t THEN v ELSE m[x]]

\* an entry that takes no permit
SemAcquireNoCount(e) == e

\* async with semaphore: entry and exit
SemAcquire(e) == [e EXCEPT !.sem = @ - 1]

\* an exit that returns no permit
SemReleaseLeaks(e) == e

SemRelease(e) == [e EXCEPT !.sem = @ + 1]

\* async with lock: entry and exit
LockAcquire(e, i) == [e EXCEPT !.lock = i]

\* an exit that keeps the lock
LockReleaseKept(e) == e

LockRelease(e) == [e EXCEPT !.lock = 0]

\* the task returns the programme
TaskDone(e, i) == [e EXCEPT !.tpc[i] = "done"]

\* an exception that leaves the gathering call as well
TaskRaisedPropagates(e, i) == [e EXCEPT !.tpc[i] = "raised", !.phase = "failed"]

\* an exception leaves the task; gather(return_exceptions=True) collects it
TaskRaised(e, i) == [e EXCEPT !.tpc[i] = "raised"]

\* if image_url: programme.icon_url = image_url; return programme
AfterGoogle(e, i, ans) ==
  TaskDone(IF ans.kind = "result" /\ Truthy(ans.url)
           THEN [e EXCEPT !.progs[i].icon_url = ans.url]
           ELSE e, i)

\* search_google_images with the permit held: the cache check under the lock, then either
\* the cached value is returned or the request goes out
SearchGoogleImages(e, i) ==
  LET t == e.progs[i].title
      e1 == LockAcquire(e, i)
  IN IF t \in DOMAIN e1.cache.google
     THEN AfterGoogle(SemRelease(LockRelease(e1)), i, e1.cache.google[t])
     ELSE [LockRelease(e1) EXCEPT !.tpc[i] = "googleReq",
                                  !.reqs.google[t] = @ + 1,
                                  !.called[i] = @ \cup {"google"},
                                  !.late = @ \cup ({<<"google", t>>} \cap e.completed)]

\* if not programme.icon_url: if ...get('enable_google_image_search_metadata'): ...
GoogleStage(e, i) ==
  IF ~Truthy(e.progs[i].icon_url) /\ e.settings.google
  THEN IF e.sem > 0 THEN SearchGoogleImages(SemAcquire(e), i)
       ELSE [e EXCEPT !.tpc[i] = "googleWait"]
  ELSE TaskDone(e, i)

\* if tmdb_data: fill the fields that are missing; then the image search stage
AfterTmdb(e, i, ans) ==
  LET p == e.progs[i]
      p1 == IF ans.kind = "result"
            THEN [p EXCEPT !.sub_title = IF ~Truthy(@) THEN ans.title ELSE @,
                           !.desc = IF ~Truthy(@) THEN ans.overview ELSE @,
                           !.icon_url = IF ~Truthy(@) THEN PosterUrl(ans.poster_path) ELSE @]
            ELSE p
  IN GoogleStage([e EXCEPT !.progs[i] = p1], i)

\* search_tmdb_for_movie with the permit held: the cache check under the lock, then either
\* the cached value is returned or the request goes out
SearchTmdbForMovie(e, i) ==
  LET t == e.progs[i].title
      e1 == LockAcquire(e, i)
  IN IF t \in DOMAIN e1.cache.tmdb
     THEN AfterTmdb(SemRelease(LockRelease(e1)), i, e1.cache.tmdb[t])
     ELSE [LockRelease(e1) EXCEPT !.tpc[i] = "tmdbReq",
                                  !.reqs.tmdb[t] = @ + 1,
                                  !.called[i] = @ \cup {"tmdb"},
                                  !.late = @ \cup ({<<"tmdb", t>>} \cap e.completed)]

\* a test that passes as soon as one of the three fields is missing
TmdbCandidateAnyMissing(p) == ~(Truthy(p.sub_title) /\ Truthy(p.desc) /\ Truthy(p.icon_url))

\* if not (programme.sub_title or programme.desc or programme.icon_url)
TmdbCandidate(p) == ~(Truthy(p.sub_title) \/ Truthy(p.desc) \/ Truthy(p.icon_url))

\* update_wrapper and update_programme_with_online_data up to the first suspension
UpdateWrapper(e, i) ==
  IF e.progs[i].categories = Null
  THEN \* json.loads(None) raises TypeError
       TaskRaised(e, i)
  ELSE IF TmdbCandidate(e.progs[i]) /\ e.settings.tmdb
  THEN IF e.sem > 0 THEN SearchTmdbForMovie(SemAcquire(e), i)
       ELSE [e EXCEPT !.tpc[i] = "tmdbWait"]
  ELSE GoogleStage(e, i)

Tasks == DOMAIN en.tpc

InFlight == {i \in Tasks : en.tpc[i] \in {"tmdbReq", "googleReq"}}

\* update_programmes_concurrently(settings, programmes, cache, lock): a new semaphore, one
\* task per programme
UpdateProgrammesConcurrently(batch) ==
  /\ en.phase = "idle"
  /\ batch \in en.inputs
  /\ en' = [en EXCEPT !.phase = "running", !.progs = batch, !.orig = batch,
                      !.tpc = [i \in DOMAIN batch |-> "new"],
                      !.called = [i \in DOMAIN batch |-> {}],
                      !.sem = SemaphoreLimit, !.calls = 1]
  /\ UNCHANGED <<ingestVars, bd, api>>

\* a call of update_programmes_concurrently on batch with the cache and the lock it is
\* handed: a new semaphore, one task per programme
NextCall(e, batch) ==
  [e EXCEPT !.phase = "running", !.progs = batch, !.orig = batch,
            !.tpc = [i \in DOMAIN batch |-> "new"],
            !.called = [i \in DOMAIN batch |-> {}],
            !.reqs = [tmdb |-> [t \in Titles |-> 0], google |-> [t \in Titles |-> 0]],
            !.sem = SemaphoreLimit, !.calls = @ + 1]

\* the loop of update_channel_epg_with_online_data saves the programmes and goes on to the
\* next enabled channel: its programmes, the same cache and lock
NextChannelBatch(batch) ==
  /\ en.phase = "returned"
  /\ en.calls < MaxCalls
  /\ batch \in en.more
  /\ en' = NextCall(en, batch)
  /\ UNCHANGED <<ingestVars, bd, api>>

\* a later invocation of update_channel_epg_with_online_data: cache = {} and a new lock,
\* the programmes as the previous run saved them
NextRunBatch ==
  /\ en.phase = "returned"
  /\ en.calls < MaxCalls
  /\ en.more # {}
  /\ en' = NextCall([en EXCEPT !.cache = [tmdb |-> EmptyMap, google |-> EmptyMap],
                               !.lock = 0, !.run = @ + 1], en.progs)
  /\ UNCHANGED <<ingestVars, bd, api>>

\* the event loop runs the first step of the tasks in the order gather received them
StartTask(i) ==
  /\ en.phase = "running"
  /\ i \in Tasks /\ en.tpc[i] = "new"
  /\ \A j \in Tasks : j < i => en.tpc[j] # "new"
  /\ en.lock = 0
  /\ en' = UpdateWrapper(en, i)
  /\ UNCHANGED <<ingestVars, bd, api>>

\* a task waiting in `async with semaphore` of search_tmdb_for_movie gets a permit
ResumeTmdb(i) ==
  /\ i \in Tasks /\ en.tpc[i] = "tmdbWait"
  /\ en.sem > 0 /\ en.lock = 0
  /\ en' = SearchTmdbForMovie(SemAcquire(en), i)
  /\ UNCHANGED <<ingestVars, bd, api>>

\* a task waiting in `async with semaphore` of search_google_images gets a permit
ResumeGoogle(i) ==
  /\ i \in Tasks /\ en.tpc[i] = "googleWait"
  /\ en.sem > 0 /\ en.lock = 0
  /\ en' = SearchGoogleImages(SemAcquire(en), i)
  /\ UNCHANGED <<ingestVars, bd, api>>

\* the TMDB request of task i ends: the value is cached under the lock, the permit is
\* released and the task goes on; an exception releases the permit and leaves the task
TmdbResponse(i) ==
  /\ i \in Tasks /\ en.tpc[i] = "tmdbReq"
  /\ en.lock = 0
  /\ \E ans \in en.answers.tmdb :
       en' = IF ans.kind = "error"
             THEN TaskRaised(SemRelease(en), i)
             ELSE LET e1 == LockAcquire(en, i)
                      e2 == [e1 EXCEPT !.cache.tmdb = CachePut(@, en.progs[i].title, ans),
                                       !.completed = @ \cup {<<"tmdb", en.progs[i].title>>}]
                  IN AfterTmdb(SemRelease(LockRelease(e2)), i, ans)
  /\ UNCHANGED <<ingestVars, bd, api>>

\* the image search request of task i ends
GoogleResponse(i) ==
  /\ i \in Tasks /\ en.tpc[i] = "googleReq"
  /\ en.lock = 0
  /\ \E ans \in en.answers.google :
       en' = IF ans.kind = "error"
             THEN TaskRaised(SemRelease(en), i)
             ELSE LET e1 == LockAcquire(en, i)
                      e2 == [e1 EXCEPT !.cache.google = CachePut(@, en.progs[i].title, ans),
                                       !.completed = @ \cup {<<"google", en.progs[i].title>>}]
                  IN AfterGoogle(SemRelease(LockRelease(e2)), i, ans)
  /\ UNCHANGED <<ingestVars, bd, api>>

\* await asyncio.gather(*tasks, return_exceptions=True) is over; return programmes
GatherReturns ==
  /\ en.phase = "running"
  /\ \A i \in Tasks : en.tpc[i] \in {"done", "raised"}
  /\ en' = [en EXCEPT !.phase = "returned"]
  /\ UNCHANGED <<ingestVars, bd, api>>

(***************************************************************************)
(* Synthesis: build_custom_epg.  The Channel rows are read once, in        *)
(* channel-number order; every enabled channel is entered in               *)
(* configured_channels and its programmes are queried and entered in       *)
(* all_channel_programmes_data; the loop sleeps after every channel, so    *)
(* other tasks run between two channels.  The document is then generated   *)
(* from the two lists and written to epg.xml by ElementTree.write, which   *)
(* opens the file for writing and closes it when the text is out.          *)
(***************************************************************************)
\* Channel.number of the channel row with this id: the ids do not follow the numbers
ChannelNumber(id) == IF id % 2 = 1 THEN 10 * (id + 1) ELSE 10 * (id - 1)

\* Channel.name, kept as the text and whether blanks surround it
ChannelName(id) == [text |-> IF id % 2 = 1 THEN "One" ELSE "Two", padded |-> id % 2 = 0]

\* Channel.name of a row whose name column is NULL
NoName == [text |-> Null, padded |-> FALSE]

\* str.strip()
Strip(name) == [name EXCEPT !.padded = FALSE]

\* what a Channel row can hold besides id and number: enabled, the guide mapping (guide_id 0
\* and guide_channel_id Null when the channel has no guide), the tag names, and whether the
\* nullable name column is set
ChannelTemplates ==
  <<[enabled |-> TRUE, guide_id |-> 1, guide_channel_id |-> "ch1", tags |-> <<"HD">>, named |-> TRUE],
    [enabled |-> TRUE, guide_id |-> 1, guide_channel_id |-> "ch1", tags |-> <<>>, named |-> TRUE],
    [enabled |-> TRUE, guide_id |-> 2, guide_channel_id |-> "ch1", tags |-> <<"Local", "HD">>, named |-> TRUE],
    [enabled |-> FALSE, guide_id |-> 1, guide_channel_id |-> "ch1", tags |-> <<"HD">>, named |-> TRUE],
    [enabled |-> TRUE, guide_id |-> 1, guide_channel_id |-> "ch2", tags |-> <<>>, named |-> TRUE],
    [enabled |-> TRUE, guide_id |-> 0, guide_channel_id |-> Null, tags |-> <<"HD">>, named |-> TRUE],
    [enabled |-> TRUE, guide_id |-> 1, guide_channel_id |-> "ch2", tags |-> <<>>, named |-> FALSE]>>

ChannelRow(id, k) ==
  LET t == ChannelTemplates[((id + k) % Len(ChannelTemplates)) + 1]
  IN [id |-> id, number |-> ChannelNumber(id),
      name |-> IF t.named THEN ChannelName(id) ELSE NoName, enabled |-> t.enabled,
      guide_id |-> t.guide_id, guide_channel_id |-> t.guide_channel_id, tags |-> t.tags]

\* the contents of the channels table the behaviours start from
ChannelTables == {{ChannelRow(id, k) : id \in 1..NumChannels} : k \in 0..(Len(ChannelTemplates) - 1)}

\* def generate_epg_channel_id(number, name): return str(number)
GenerateEpgChannelId(number, name) == ToString(number)

\* an order that takes the rows as they come
OrderByNumberAscUnordered(rows) ==
  LET RECURSIVE Pick(_)
      Pick(S) == IF S = {} THEN <<>>
                 ELSE LET r == CHOOSE x \in S : \A y \in S : x.id >= y.id
                      IN <<r>> \o Pick(S \ {r})
  IN Pick(rows)

\* db.session.query(Channel).order_by(Channel.number.asc()).all()
OrderByNumberAsc(rows) ==
  LET RECURSIVE Pick(_)
      Pick(S) == IF S = {} THEN <<>>
                 ELSE LET r == CHOOSE x \in S : \A y \in S : x.number <= y.number
                      IN <<r>> \o Pick(S \ {r})
  IN Pick(rows)

\* the place of an upstream channel id in text order
ChannelIdRank(ch) == IF ch = "ch1" THEN 1 ELSE IF ch = "ch2" THEN 2 ELSE 3

\* a start text sorts before another: digit by digit, the offset after the local time
StartLess(a, b) == a.t < b.t \/ (a.t = b.t /\ a.off < b.off)

\* order_by(EpgChannelProgrammes.channel_id.asc(), EpgChannelProgrammes.start.asc()); rows
\* that agree on both come in the order they were inserted
RowBefore(p, q) ==
  \/ ChannelIdRank(p.channel_id) < ChannelIdRank(q.channel_id)
  \/ /\ p.channel_id = q.channel_id
     /\ \/ StartLess(p.data.start, q.data.start)
        \/ /\ p.data.start = q.data.start
           /\ (p.batch < q.batch \/ (p.batch = q.batch /\ p.idx <= q.idx))

\* the filter of the programme query: the programme's channel row belongs to the guide and
\* carries the upstream channel id the Channel row names
MatchedProgrammes(ch) ==
  {p \in programmes : \E c \in epgChannels :
      /\ c.id = p.epg_channel_id
      /\ c.epg_id = ch.guide_id
      /\ c.channel_id = ch.guide_channel_id}

\* db_programmes_query.all()
DbProgrammes(ch) ==
  LET RECURSIVE Pick(_)
      Pick(S) == IF S = {} THEN <<>>
                 ELSE LET r == CHOOSE x \in S : \A y \in S : x = y \/ RowBefore(x, y)
                      IN <<r>> \o Pick(S \ {r})
  IN Pick(MatchedProgrammes(ch))

\* programme_data: the columns copied, the JSON columns loaded ([] for an empty column)
ProgrammeData(p) ==
  [start |-> p.data.start,
   title |-> p.data.title,
   categories |-> IF p.data.categories.null \/ p.data.categories.json = <<>>
                  THEN <<>> ELSE JsonLoads(p.data.categories),
   rating_system |-> p.data.rating_system,
   rating_value |-> p.data.rating_value]

\* an entry whose identity changes with the time of the build
ChannelInfoStamped(ch, now) ==
  [channel_id |-> ToString(ch.number + now),
   display_name |-> ch.name,
   logo_url |-> [id |-> ch.id, cache_buster |-> now]]

\* the entry of configured_channels for a Channel row, built at time now
ChannelInfo(ch, now) ==
  [channel_id |-> GenerateEpgChannelId(ch.number, ch.name),
   display_name |-> ch.name,
   logo_url |-> [id |-> ch.id, cache_buster |-> now]]

\* an entry that names the channel by the upstream channel id of its guide mapping
ChannelProgrammesDataUpstream(ch) ==
  LET rows == DbProgrammes(ch)
  IN [channel |-> ch.guide_channel_id,
      tags |-> ch.tags,
      programmes |-> [k \in DOMAIN rows |-> ProgrammeData(rows[k])],
      rows |-> rows,
      row_id |-> ch.id,
      resolved |-> \E c \in epgChannels : c.epg_id = ch.guide_id /\ c.channel_id = ch.guide_channel_id]

\* the entry of all_channel_programmes_data for a Channel row; rows and resolved record
\* what the query matched and whether the guide mapping named a GuideChannel row
ChannelProgrammesData(ch) ==
  LET rows == DbProgrammes(ch)
  IN [channel |-> GenerateEpgChannelId(ch.number, ch.name),
      tags |-> ch.tags,
      programmes |-> [k \in DOMAIN rows |-> ProgrammeData(rows[k])],
      rows |-> rows,
      row_id |-> ch.id,
      resolved |-> \E c \in epgChannels : c.epg_id = ch.guide_id /\ c.channel_id = ch.guide_channel_id]

\* the <channel> element of an entry of configured_channels: the id attribute, the text of
\* <display-name> and the src attribute of <icon>
ChannelElement(info) ==
  [id |-> info.channel_id, display_name |-> Strip(info.display_name), icon |-> info.logo_url]

\* a <programme> element with the tags of the channel ahead of its own categories
ProgrammeElementTagsFirst(entry, k) ==
  LET pd == entry.programmes[k]
  IN Elem(entry.channel, pd.start, pd.title, entry.tags \o pd.categories,
          IF Truthy(pd.rating_system) /\ Truthy(pd.rating_value)
          THEN Rating(pd.rating_system, pd.rating_value) ELSE NoRating)

\* the <programme> element of programme k of an entry of all_channel_programmes_data: the
\* channel attribute is the entry's channel, the categories of the programme are followed by
\* the tags of the channel, <rating> is written when system and value are both set, and
\* <title> is written with the stored text unless that is None
ProgrammeElement(entry, k) ==
  LET pd == entry.programmes[k]
  IN Elem(entry.channel, pd.start, pd.title, pd.categories \o entry.tags,
          IF Truthy(pd.rating_system) /\ Truthy(pd.rating_value)
          THEN Rating(pd.rating_system, pd.rating_value) ELSE NoRating)

\* the loop over all_channel_programmes_data and over the programmes of every entry
RECURSIVE ProgrammeElements(_)
ProgrammeElements(data) ==
  IF data = <<>> THEN <<>>
  ELSE [k \in DOMAIN Head(data).programmes |-> ProgrammeElement(Head(data), k)]
       \o ProgrammeElements(Tail(data))

EmptyDoc == [channels |-> <<>>, programmes |-> <<>>]

\* the children of <tv>: the <channel> elements, then the <programme> elements
Document(configured, data) ==
  [channels |-> [k \in DOMAIN configured |-> ChannelElement(configured[k])],
   programmes |-> ProgrammeElements(data)]

\* the tables the programme queries read
StoreView == [chans |-> epgChannels, progs |-> programmes]

IdleBuild ==
  [channels |-> {}, pc |-> "idle", todo |-> <<>>, configured |-> <<>>, data |-> <<>>,
   now |-> 0, doc |-> EmptyDoc, out |-> [doc |-> EmptyDoc, complete |-> TRUE],
   builds |-> 0, step |-> 0, views |-> {},
   prev |-> [doc |-> EmptyDoc, views |-> {}, valid |-> FALSE],
   deleted |-> {}]

\* a loop that takes every channel
IncludedAlways(ch) == TRUE

\* if result.enabled:
Included(ch) == ch.enabled

\* build_custom_epg(config) is called: the Channel rows are read in number order
BuildCustomEpg ==
  /\ bd.pc \in {"idle", "done", "failed"}
  /\ bd.builds < MaxBuilds
  /\ bd.channels # {}
  /\ bd' = [bd EXCEPT !.pc = "channels", !.todo = OrderByNumberAsc(bd.channels),
                      !.configured = <<>>, !.data = <<>>, !.views = {}, !.doc = EmptyDoc,
                      !.prev = [doc |-> bd.doc, views |-> bd.views, valid |-> bd.pc = "done"],
                      !.builds = @ + 1, !.step = @ + 1]
  /\ UNCHANGED <<ingestVars, en, api>>

\* one iteration of the loop over the Channel rows, up to its sleep
BuildChannel ==
  /\ bd.pc = "channels"
  /\ LET ch == Head(bd.todo)
         rest == Tail(bd.todo)
         next == IF rest = <<>> THEN "generate" ELSE "channels"
     IN bd' = IF Included(ch)
              THEN [bd EXCEPT !.configured = Append(@, ChannelInfo(ch, bd.now)),
                              !.data = Append(@, ChannelProgrammesData(ch)),
                              !.views = @ \cup {StoreView},
                              !.now = @ + 1,
                              !.todo = rest, !.pc = next, !.step = @ + 1]
              ELSE [bd EXCEPT !.todo = rest, !.pc = next, !.step = @ + 1]
  /\ UNCHANGED <<ingestVars, en, api>>

\* channel_info['display_name'].strip() of a name that is None raises AttributeError
StripRaises(configured) == \E k \in DOMAIN configured : configured[k].display_name = NoName

\* the loops that generate the <channel> and the <programme> elements; an exception leaves
\* build_custom_epg, which handles none
BuildGenerate ==
  /\ bd.pc = "generate"
  /\ bd' = IF StripRaises(bd.configured)
            THEN [bd EXCEPT !.pc = "failed", !.step = @ + 1]
            ELSE [bd EXCEPT !.doc = Document(bd.configured, bd.data), !.pc = "write",
                            !.step = @ + 1]
  /\ UNCHANGED <<ingestVars, en, api>>

\* output_tree.write(custom_epg_file, 'UTF-8', True) opens epg.xml for writing: the file is
\* cut to length 0, the text follows
BuildWriteOpen ==
  /\ bd.pc = "write"
  /\ bd' = [bd EXCEPT !.out = [doc |-> EmptyDoc, complete |-> FALSE], !.pc = "writing",
                      !.step = @ + 1]
  /\ UNCHANGED <<ingestVars, en, api>>

\* the text is written and the file is closed
BuildWriteClose ==
  /\ bd.pc = "writing"
  /\ bd' = [bd EXCEPT !.out = [doc |-> bd.doc, complete |-> TRUE], !.pc = "done", !.step = @ + 1]
  /\ UNCHANGED <<ingestVars, en, api>>

\* add_new_epg(data): the Epg row gets the largest id in the table plus one
AddNewEpg ==
  /\ LET id == IF epgs = {} THEN 1 ELSE SetMax(epgs) + 1
     IN /\ id \in Sources
        /\ epgs' = epgs \cup {id}
  /\ UNCHANGED <<epgChannels, programmes, file, served, quota, runs, nextBatch, history, en, bd, api>>

(***************************************************************************)
(* The channel routes (src/backend/api/routes_channels.py) that change the *)
(* channel configuration.  A handler reads the request body and then       *)
(* awaits, one after the other, the functions of backend.channels it       *)
(* calls; other handlers run while it waits.  A call that raises ends the  *)
(* handler without a success response.  The requests are those the         *)
(* authentication decorator lets through.                                  *)
(***************************************************************************)
Queue == "queue_background_channel_update_tasks"

MutatingRoutes ==
  {"api_add_new_channel", "api_set_config_channels", "api_set_config_multiple_channels",
   "api_add_multiple_channels", "api_delete_multiple_channels", "api_delete_config_channels",
   "api_add_channels_from_groups"}

\* the functions of backend.channels that change the channel configuration
ChangeCalls ==
  {"add_new_channel", "update_channel", "add_bulk_channels", "delete_channel", "add_channels_from_groups"}

\* the call function made n times in a row
Repeat(call, n) == [k \in 1..n |-> call]

\* the calls a handler awaits, in order, for a body that names n channels (n groups for
\* api_add_channels_from_groups)
HandlerCalls(route, n) ==
  IF route = "api_add_new_channel" THEN <<"add_new_channel", Queue>>
  ELSE IF route = "api_set_config_channels" THEN <<"update_channel", Queue>>
  ELSE IF route = "api_set_config_multiple_channels" THEN Repeat("update_channel", n) \o <<Queue>>
  ELSE IF route = "api_add_multiple_channels" THEN <<"add_bulk_channels", Queue>>
  ELSE IF route = "api_delete_multiple_channels" THEN Repeat("delete_channel", n) \o <<Queue>>
  ELSE IF route = "api_delete_config_channels" THEN <<"delete_channel">>
  ELSE <<"add_channels_from_groups", Queue>>

Requests == 1..ApiSlots

IdleRequest == [pc |-> "idle", route |-> "none", todo |-> <<>>, log |-> <<>>, resp |-> "none"]

IdleApi == [req |-> [q \in Requests |-> IdleRequest], n |-> 0, queued |-> 0]

\* a request arrives at a route; the handler runs up to its first call.
\* api_add_channels_from_groups answers 400 at once when the body names no group.
ApiRequest(q, route, n) ==
  /\ api.req[q].pc \in {"idle", "returned"}
  /\ api.n < MaxApiRequests
  /\ api' = [api EXCEPT
       !.n = @ + 1,
       !.req[q] = IF route = "api_add_channels_from_groups" /\ n = 0
                  THEN [pc |-> "returned", route |-> route, todo |-> <<>>, log |-> <<>>,
                        resp |-> "failure"]
                  ELSE [pc |-> "awaiting", route |-> route, todo |-> HandlerCalls(route, n),
                        log |-> <<>>, resp |-> "none"]]
  /\ UNCHANGED <<ingestVars, en, bd>>

\* the call the handler awaits returns; after its last call the handler returns
\* {"success": True}
ApiCallReturns(q) ==
  /\ api.req[q].pc = "awaiting"
  /\ LET call == Head(api.req[q].todo)
         rest == Tail(api.req[q].todo)
     IN api' = [api EXCEPT
          !.queued = IF call = Queue THEN @ + 1 ELSE @,
          !.req[q] = [@ EXCEPT !.todo = rest,
                               !.log = Append(@, call),
                               !.pc = IF rest = <<>> THEN "returned" ELSE "awaiting",
                               !.resp = IF rest = <<>> THEN "success" ELSE "none"]]
  /\ UNCHANGED <<ingestVars, en, bd>>

\* the call the handler awaits raises: the handler ends, the framework answers 500
ApiCallRaises(q) ==
  /\ api.req[q].pc = "awaiting"
  /\ api' = [api EXCEPT !.req[q] = [@ EXCEPT !.pc = "returned", !.resp = "error"]]
  /\ UNCHANGED <<ingestVars, en, bd>>

Init ==
  /\ epgs = Sources
  /\ epgChannels = {}
  /\ programmes = {}
  /\ file = [s \in Sources |-> NoFile]
  /\ served = SmallDocs
  /\ quota = MaxImports
  /\ runs = [r \in Runs |-> IdleRun]
  /\ nextBatch = 1
  /\ history = [s \in Sources |-> <<>>]
  /\ bd = IdleBuild
  /\ api = IdleApi
  /\ en = IdleEnrichment

Next ==
  \/ \E r \in Runs, s \in Sources : StartImport(r, s)
  \/ \E r \in Runs : StartImportAll(r)
  \/ \E r \in Runs : ReadConfig(r)
  \/ \E r \in Runs : Download(r)
  \/ \E r \in Runs : DownloadFail(r)
  \/ \E r \in Runs : ClearEpgChannelData(r)
  \/ \E r \in Runs : StoreEpgChannels(r)
  \/ \E r \in Runs : LookupChannelIds(r)
  \/ \E r \in Runs : SaveProgrammes(r)
  \/ \E r \in Runs : StorageError(r)
  \/ \E s \in Sources : DeleteEpg(s)

Spec == Init /\ [][Next]_vars


(***************************************************************************)
(* One task at a time: an import task runs to its end before the next one  *)
(* starts, and a source is deleted only while no import is in progress.    *)
(***************************************************************************)
InitSeq ==
  /\ epgs = Sources
  /\ epgChannels = {}
  /\ programmes = {}
  /\ file = [s \in Sources |-> NoFile]
  /\ served = SmallDocs
  /\ quota = SeqImports
  /\ runs = [r \in Runs |-> IdleRun]
  /\ nextBatch = 1
  /\ history = [s \in Sources |-> <<>>]
  /\ bd = IdleBuild
  /\ api = IdleApi
  /\ en = IdleEnrichment

\* delete_epg as a task of its own, between two imports
DeleteEpgBetween(s) ==
  /\ \A q \in Runs : runs[q].pc \notin MidPcs
  /\ DeleteEpg(s)

NextSeq ==
  \/ \E s \in Sources : StartImport(1, s)
  \/ StartImportAll(1)
  \/ ReadConfig(1)
  \/ Download(1)
  \/ DownloadFail(1)
  \/ ClearEpgChannelData(1)
  \/ StoreEpgChannels(1)
  \/ LookupChannelIds(1)
  \/ SaveProgrammes(1)
  \/ StorageError(1)
  \/ \E s \in Sources : DeleteEpgBetween(s)

SpecSeq == InitSeq /\ [][NextSeq]_vars

(***************************************************************************)
(* One import of one bulk document, of a size around the flush chunk.      *)
(***************************************************************************)
InitBulk ==
  /\ epgs = Sources
  /\ epgChannels = {}
  /\ programmes = {}
  /\ file = [s \in Sources |-> NoFile]
  /\ served = BulkDocs
  /\ quota = 1
  /\ runs = [r \in Runs |-> IdleRun]
  /\ nextBatch = 1
  /\ history = [s \in Sources |-> <<>>]
  /\ bd = IdleBuild
  /\ api = IdleApi
  /\ en = IdleEnrichment

SpecBulk == InitBulk /\ [][NextSeq]_vars


(***************************************************************************)
(* Enrichment of one small batch, under every combination of providers.    *)
(***************************************************************************)
ProviderSettings ==
  {[tmdb |-> TRUE, google |-> FALSE], [tmdb |-> FALSE, google |-> TRUE], [tmdb |-> TRUE, google |-> TRUE]}

InitEnrich ==
  /\ epgs = Sources
  /\ epgChannels = {}
  /\ programmes = {}
  /\ file = [s \in Sources |-> NoFile]
  /\ served = SmallDocs
  /\ quota = 0
  /\ runs = [r \in Runs |-> IdleRun]
  /\ nextBatch = 1
  /\ history = [s \in Sources |-> <<>>]
  /\ bd = IdleBuild
  /\ api = IdleApi
  /\ \E st \in ProviderSettings :
       en = [IdleEnrichment EXCEPT !.settings = st, !.inputs = SmallBatches, !.answers = AllAnswers]

NextEnrich ==
  \/ \E batch \in SmallBatches \cup GateBatches : UpdateProgrammesConcurrently(batch)
  \/ \E batch \in SingleBatches : NextChannelBatch(batch)
  \/ NextRunBatch
  \/ \E i \in 1..(SemaphoreLimit + GateExtra) : StartTask(i)
  \/ \E i \in 1..(SemaphoreLimit + GateExtra) : ResumeTmdb(i)
  \/ \E i \in 1..(SemaphoreLimit + GateExtra) : ResumeGoogle(i)
  \/ \E i \in 1..(SemaphoreLimit + GateExtra) : TmdbResponse(i)
  \/ \E i \in 1..(SemaphoreLimit + GateExtra) : GoogleResponse(i)
  \/ GatherReturns

(***************************************************************************)
(* Enrichment of a batch larger than the semaphore, one provider enabled.  *)
(***************************************************************************)
InitGate ==
  /\ epgs = Sources
  /\ epgChannels = {}
  /\ programmes = {}
  /\ file = [s \in Sources |-> NoFile]
  /\ served = SmallDocs
  /\ quota = 0
  /\ runs = [r \in Runs |-> IdleRun]
  /\ nextBatch = 1
  /\ history = [s \in Sources |-> <<>>]
  /\ bd = IdleBuild
  /\ api = IdleApi
  /\ \E st \in {x \in ProviderSettings : ~(x.tmdb /\ x.google)} :
       en = [IdleEnrichment EXCEPT !.settings = st, !.inputs = GateBatches, !.answers = GateAnswers]

(***************************************************************************)
(* Enrichment of channels with one programme each, over several calls and  *)
(* runs of update_channel_epg_with_online_data.                            *)
(***************************************************************************)
InitRuns ==
  /\ epgs = Sources
  /\ epgChannels = {}
  /\ programmes = {}
  /\ file = [s \in Sources |-> NoFile]
  /\ served = SmallDocs
  /\ quota = 0
  /\ runs = [r \in Runs |-> IdleRun]
  /\ nextBatch = 1
  /\ history = [s \in Sources |-> <<>>]
  /\ bd = IdleBuild
  /\ api = IdleApi
  /\ \E st \in ProviderSettings :
       en = [IdleEnrichment EXCEPT !.settings = st, !.inputs = SingleBatches, !.answers = AllAnswers,
                                   !.more = SingleBatches]

\* one scenario of the three
SpecEnrich == (InitEnrich \/ InitGate \/ InitRuns) /\ [][NextEnrich]_vars

\* a step of the call in progress: the event loop runs a task that is ready, a provider
\* request ends, the gathering returns
EnrichStep ==
  \/ \E i \in 1..(SemaphoreLimit + GateExtra) : StartTask(i)
  \/ \E i \in 1..(SemaphoreLimit + GateExtra) : ResumeTmdb(i)
  \/ \E i \in 1..(SemaphoreLimit + GateExtra) : ResumeGoogle(i)
  \/ \E i \in 1..(SemaphoreLimit + GateExtra) : TmdbResponse(i)
  \/ \E i \in 1..(SemaphoreLimit + GateExtra) : GoogleResponse(i)
  \/ GatherReturns

\* the event loop does not stop while a task is ready, and every provider request that is
\* out ends (aiohttp returns or raises)
SpecEnrichFair == SpecEnrich /\ WF_vars(EnrichStep)

(***************************************************************************)
(* Builds of the synthesized document, imports, deletions and additions    *)
(* of sources as background tasks that run one at a time.                  *)
(***************************************************************************)
BuildDocs == {D1, D2}

InitBuild ==
  /\ epgs = Sources
  /\ epgChannels = {}
  /\ programmes = {}
  /\ file = [s \in Sources |-> NoFile]
  /\ served = BuildDocs
  /\ quota = BuildImports
  /\ runs = [r \in Runs |-> IdleRun]
  /\ nextBatch = 1
  /\ history = [s \in Sources |-> <<>>]
  /\ en = IdleEnrichment
  /\ api = IdleApi
  /\ \E table \in ChannelTables : bd = [IdleBuild EXCEPT !.channels = table]

\* no build is under way
BuildIdle == bd.pc \in {"idle", "done", "failed"}

\* no import is under way
ImportsIdle == \A q \in Runs : runs[q].pc \in EndPcs

NextBuild ==
  \/ BuildIdle /\ NextSeq
  \/ BuildIdle /\ ImportsIdle /\ AddNewEpg
  \/ ImportsIdle /\ BuildCustomEpg
  \/ BuildChannel
  \/ BuildGenerate
  \/ BuildWriteOpen
  \/ BuildWriteClose

SpecBuild == InitBuild /\ [][NextBuild]_vars

(***************************************************************************)
(* Requests to the channel routes, handlers side by side.                  *)
(***************************************************************************)
InitApi ==
  /\ epgs = Sources
  /\ epgChannels = {}
  /\ programmes = {}
  /\ file = [s \in Sources |-> NoFile]
  /\ served = SmallDocs
  /\ quota = 0
  /\ runs = [r \in Runs |-> IdleRun]
  /\ nextBatch = 1
  /\ history = [s \in Sources |-> <<>>]
  /\ en = IdleEnrichment
  /\ bd = IdleBuild
  /\ api = IdleApi

NextApi ==
  \/ \E q \in Requests, route \in MutatingRoutes, n \in 0..MaxIds : ApiRequest(q, route, n)
  \/ \E q \in Requests : ApiCallReturns(q)
  \/ \E q \in Requests : ApiCallRaises(q)

SpecApi == InitApi /\ [][NextApi]_vars

(***************************************************************************)
(* What the store holds of a document.                                     *)
(***************************************************************************)
\* the programmes of d whose channel attribute is a channel id declared in d
DeclaredIdx(d) ==
  {i \in DOMAIN DocProgrammes(d) : DocProgrammes(d)[i].channel \in Range(DocChannels(d))}

\* the upstream channel ids of the channel rows of s, in row id order
ChannelSeq(s) ==
  LET ids == SortedSeq(ChannelIdsOf(s))
  IN [i \in DOMAIN ids |-> (CHOOSE c \in epgChannels : c.id = ids[i]).channel_id]

\* the rows of s are the rows of document d, inserted by import b, and nothing else
HoldsDocument(s, d, b) ==
  LET rows == RowsOf(s)
  IN /\ \A c \in rows.chans : c.batch = b
     /\ \A p \in rows.progs : p.batch = b
     /\ ChannelSeq(s) = DocChannels(d)
     /\ {p.idx : p \in rows.progs} = DeclaredIdx(d)
     /\ Cardinality(rows.progs) = Cardinality(DeclaredIdx(d))
     /\ \A p \in rows.progs :
          /\ p.channel_id = DocProgrammes(d)[p.idx].channel
          /\ p.epg_channel_id = FirstChannelId(s, p.channel_id)

\* C1: after two uninterrupted imports of a source run to completion one after the other, the
\* channel and programme rows of the source are exactly the rows of the second document, and
\* no row of the first import is left anywhere in the two tables.
Thm_C1_ReingestReplaces ==
  \A s \in Sources :
    (NoActive(s) /\ Len(history[s]) = 2) =>
      /\ HoldsDocument(s, history[s][2].doc, history[s][2].batch)
      /\ \A c \in epgChannels : c.batch # history[s][1].batch
      /\ \A p \in programmes : p.batch # history[s][1].batch

Wit_C1_ReingestReplaces ==
  \E s \in Sources :
    /\ NoActive(s) /\ Len(history[s]) = 2
    /\ history[s][1].doc = D1 /\ history[s][2].doc = D2
    /\ Cardinality(RowsOf(s).progs) = 2

\* C2: while an import that is alone on its source is in progress, the rows of the source
\* that a reader finds in the store are the complete rows from before the import or the
\* complete rows of the new document.
Cex_C2_AtomicReplace ==
  \A r \in Runs :
    (runs[r].pc \in MidPcs /\ runs[r].excl) =>
      \/ RowsOf(Cur(r)) = runs[r].pre
      \/ HoldsDocument(Cur(r), runs[r].doc, runs[r].batch)

\* C3: when a storage operation fails in an import that is alone on its source, the rows of
\* the source equal the rows from before the import started.
Cex_C3_StorageErrorRollsBack ==
  \A r \in Runs :
    (runs[r].pc = "failed" /\ runs[r].cause = "storage" /\ runs[r].excl) =>
      RowsOf(runs[r].failedOn) = runs[r].pre

\* C4: when the fetch fails or the downloaded document does not parse, in an import that is
\* alone on its source, the rows of the source equal the rows from before the import started.
Cex_C4_FetchParseFailureUntouched ==
  \A r \in Runs :
    (runs[r].pc = "failed" /\ runs[r].cause \in {"fetch", "parse"} /\ runs[r].excl) =>
      RowsOf(runs[r].failedOn) = runs[r].pre

\* C5: when import_epg_data_for_all_epgs has ended and one of its sources failed to fetch or
\* to parse, every other source of the batch has been ingested.
Cex_C5_BatchContinues ==
  \A r \in Runs :
    (runs[r].pc = "failed" /\ Len(runs[r].plan) > 1 /\ runs[r].cause \in {"fetch", "parse"}) =>
      \A s \in Range(runs[r].plan) \ {runs[r].failedOn} : s \in runs[r].ingested

\* C6: after an uninterrupted import has completed, the source holds exactly one programme row
\* for every programme of the document whose channel attribute is a declared channel id and
\* none for any other programme, whatever the number of programmes.
Thm_C6_OrphansDropped ==
  \A s \in Sources :
    (NoActive(s) /\ history[s] # <<>>) =>
      LET d == history[s][Len(history[s])].doc
          progs == RowsOf(s).progs
      IN /\ {p.idx : p \in progs} = DeclaredIdx(d)
         /\ Cardinality(progs) = Cardinality(DeclaredIdx(d))
         /\ \A p \in progs : DocProgrammes(d)[p.idx].channel = p.channel_id

Wit_C6_OrphansDropped ==
  \E s \in Sources :
    /\ NoActive(s) /\ history[s] # <<>>
    /\ history[s][Len(history[s])].doc.n > FlushChunk + 2
    /\ Cardinality(RowsOf(s).progs) = history[s][Len(history[s])].doc.n - 1

\* C7: every stored programme row references an existing channel row that was inserted by the
\* same import and carries the programme's upstream channel id.
Cex_C7_NoOrphanProgramme ==
  \A p \in programmes :
    \E c \in epgChannels :
      /\ c.id = p.epg_channel_id
      /\ c.channel_id = p.channel_id
      /\ c.batch = p.batch


(***************************************************************************)
(* Enrichment claims.                                                      *)
(***************************************************************************)
\* the programme has none of subtitle, description and icon
LacksAllThree(p) ==
  /\ p.sub_title \in {Null, ""}
  /\ p.desc \in {Null, ""}
  /\ p.icon_url \in {Null, ""}

HasIcon(p) == p.icon_url \notin {Null, ""}

\* C8: when two programmes of a batch carry the same title and both lack subtitle,
\* description and icon, at most one request per provider is issued for that title, exactly
\* one request has gone to every enabled provider consulted by the time the call returns,
\* and both programmes end with the same values.
Cex_C8_OneLookupPerTitle ==
  \A i \in Tasks : \A j \in Tasks :
    (i < j /\ en.orig[i].title = en.orig[j].title
       /\ LacksAllThree(en.orig[i]) /\ LacksAllThree(en.orig[j])
       /\ en.orig[i].categories # Null /\ en.orig[j].categories # Null) =>
      /\ en.reqs.tmdb[en.orig[i].title] <= 1
      /\ en.reqs.google[en.orig[i].title] <= 1
      /\ (en.phase = "returned" /\ en.settings.tmdb) => en.reqs.tmdb[en.orig[i].title] = 1
      /\ en.phase = "returned" => en.progs[i] = en.progs[j]

\* C9: at most SemaphoreLimit provider requests are in flight at any moment, and the
\* permits taken never exceed the permits of the semaphore.
Thm_C9_InFlightCapped ==
  /\ Cardinality(InFlight) <= SemaphoreLimit
  /\ en.phase = "running" => (en.sem >= 0 /\ Cardinality(InFlight) + en.sem = SemaphoreLimit)

Wit_C9_InFlightCapped ==
  /\ Cardinality(InFlight) = SemaphoreLimit
  /\ Len(en.progs) > SemaphoreLimit
  /\ en.sem = 0
  /\ \E i \in Tasks : en.tpc[i] \in {"tmdbWait", "googleWait"}

Cex_C12_OneCallPerTitleEver == en.late = {}

(***************************************************************************)
(* Synthesis claims.                                                       *)
(***************************************************************************)
\* the document of the build under way has been generated
DocReady == bd.pc \in {"write", "writing", "done"}

ChannelRowOf(id) == CHOOSE ch \in bd.channels : ch.id = id

\* the identity the document gives a Channel row
IdentOf(ch) == ToString(ch.number)

ChannelIdents(doc) == {doc.channels[k].id : k \in DOMAIN doc.channels}

ProgrammeIdents(doc) == {doc.programmes[k].channel : k \in DOMAIN doc.programmes}

\* the elements of a document that do not belong to the channel with this identity
WithoutIdent(doc, ident) ==
  [channels |-> SelectSeq(doc.channels, LAMBDA c : c.id # ident),
   programmes |-> SelectSeq(doc.programmes, LAMBDA p : p.channel # ident)]

RemoveAt(seq, k) == [i \in 1..(Len(seq) - 1) |-> IF i < k THEN seq[i] ELSE seq[i + 1]]

\* C13: a channel whose guide mapping names a source that delete_epg removed, or an upstream
\* channel id that no channel row of the source carries, gets no programme, and the elements
\* of the other channels are those of a build without that channel.
Cex_C13_MappingGap ==
  \A k \in DOMAIN bd.data :
    LET e == bd.data[k]
        ch == ChannelRowOf(e.row_id)
    IN (ch.guide_id \in bd.deleted \/ ~e.resolved) =>
         /\ e.programmes = <<>>
         /\ DocReady => /\ e.channel \notin ProgrammeIdents(bd.doc)
                        /\ WithoutIdent(bd.doc, e.channel)
                             = Document(RemoveAt(bd.configured, k), RemoveAt(bd.data, k))

\* the guide mapping of the channel named a GuideChannel row when the build queried it
ResolvedAtQuery(ch) == \E k \in DOMAIN bd.data : bd.data[k].row_id = ch.id /\ bd.data[k].resolved

\* C14 as stated: the document holds no <channel> and no <programme> element for a channel
\* that is disabled or whose guide mapping does not resolve to a GuideChannel.
Cex_C14_ExcludedChannels ==
  DocReady =>
    \A ch \in bd.channels :
      (~ch.enabled \/ ~ResolvedAtQuery(ch)) =>
        (IdentOf(ch) \notin ChannelIdents(bd.doc) /\ IdentOf(ch) \notin ProgrammeIdents(bd.doc))

\* C14 as amended: the document holds no <channel> and no <programme> element for a disabled
\* channel; for an enabled channel whose guide mapping does not resolve to a GuideChannel it
\* holds the <channel> element and no <programme> element.
Thm_C14_DisabledExcluded ==
  DocReady =>
    \A ch \in bd.channels :
      /\ ~ch.enabled =>
           (IdentOf(ch) \notin ChannelIdents(bd.doc) /\ IdentOf(ch) \notin ProgrammeIdents(bd.doc))
      /\ (ch.enabled /\ ~ResolvedAtQuery(ch)) =>
           (IdentOf(ch) \in ChannelIdents(bd.doc) /\ IdentOf(ch) \notin ProgrammeIdents(bd.doc))

Wit_C14_DisabledExcluded ==
  /\ bd.pc = "done"
  /\ \E ch \in bd.channels : ~ch.enabled
  /\ \E ch \in bd.channels : ch.enabled /\ ch.guide_id = 0
  /\ bd.doc.programmes # <<>>

\* the <programme> elements of a document that carry this channel identity, in order
ElementsOf(doc, ident) == SelectSeq(doc.programmes, LAMBDA p : p.channel = ident)

\* the upstream channel ids the store and the guide mappings hold
UpstreamIds ==
  {c.channel_id : c \in epgChannels} \cup {p.channel_id : p \in programmes}
    \cup {ch.guide_channel_id : ch \in bd.channels}

\* C15: the channel attribute of every <programme> element is the number of an enabled
\* Channel row, written as text, which is the id of a <channel> element of the document and
\* no upstream channel id; every queried channel has one element per programme row its
\* guide mapping matched, in the order of the query, whichever other channels share the
\* mapping.
Thm_C15_OwnIdentity ==
  DocReady =>
    /\ \A k \in DOMAIN bd.doc.programmes :
         LET ident == bd.doc.programmes[k].channel
         IN /\ ident \in ChannelIdents(bd.doc)
            /\ \E ch \in bd.channels : ch.enabled /\ ident = IdentOf(ch)
            /\ ident \notin UpstreamIds
    /\ \A k \in DOMAIN bd.data :
         LET e == bd.data[k]
             els == ElementsOf(bd.doc, IdentOf(ChannelRowOf(e.row_id)))
         IN /\ Len(els) = Len(e.rows)
            /\ \A j \in DOMAIN els :
                 els[j].start = e.rows[j].data.start /\ els[j].title = e.rows[j].data.title

Wit_C15_OwnIdentity ==
  /\ bd.pc = "done"
  /\ \E a \in DOMAIN bd.data : \E b \in DOMAIN bd.data :
       /\ a # b
       /\ ChannelRowOf(bd.data[a].row_id).guide_id = ChannelRowOf(bd.data[b].row_id).guide_id
       /\ ChannelRowOf(bd.data[a].row_id).guide_channel_id
            = ChannelRowOf(bd.data[b].row_id).guide_channel_id
       /\ Len(ElementsOf(bd.doc, bd.data[a].channel)) >= 2
       /\ Len(ElementsOf(bd.doc, bd.data[b].channel)) >= 2

\* the number of the Channel row a document identity stands for
NumberOfIdent(ident) == (CHOOSE ch \in bd.channels : IdentOf(ch) = ident).number

\* C16: the <channel> elements are those of the enabled Channel rows in ascending number
\* order; the <programme> elements come channel by channel in that order, the elements of
\* one channel in ascending order of their start text.
Thm_C16_Ordering ==
  DocReady =>
    /\ ChannelIdents(bd.doc) = {IdentOf(ch) : ch \in {x \in bd.channels : x.enabled}}
    /\ \A i \in DOMAIN bd.doc.channels : \A j \in DOMAIN bd.doc.channels :
         i < j => NumberOfIdent(bd.doc.channels[i].id) < NumberOfIdent(bd.doc.channels[j].id)
    /\ \A i \in DOMAIN bd.doc.programmes : \A j \in DOMAIN bd.doc.programmes :
         i < j =>
           LET p == bd.doc.programmes[i]
               q == bd.doc.programmes[j]
           IN /\ NumberOfIdent(p.channel) <= NumberOfIdent(q.channel)
              /\ p.channel = q.channel => ~StartLess(q.start, p.start)

Wit_C16_Ordering ==
  /\ bd.pc = "done"
  /\ Len(bd.doc.channels) >= 2
  /\ Cardinality(ProgrammeIdents(bd.doc)) >= 2
  /\ \E k \in DOMAIN bd.data :
       Len(bd.data[k].rows) >= 2 /\ bd.data[k].rows[1].idx > bd.data[k].rows[2].idx
  /\ \E a \in bd.channels : \E b \in bd.channels :
       a.enabled /\ b.enabled /\ a.id < b.id /\ a.number > b.number

\* the categories a programme row stores
OwnCategories(row) == IF row.data.categories.null THEN <<>> ELSE row.data.categories.json

\* C17: the <category> children of every <programme> element of a channel are the
\* categories the programme row stores, in order, followed by the tags of that channel, in
\* order, and nothing else.
Thm_C17_TagsAsCategories ==
  DocReady =>
    \A k \in DOMAIN bd.data :
      LET e == bd.data[k]
          ch == ChannelRowOf(e.row_id)
          els == ElementsOf(bd.doc, IdentOf(ch))
      IN \A j \in DOMAIN els :
           j \in DOMAIN e.rows /\ els[j].categories = OwnCategories(e.rows[j]) \o ch.tags

Wit_C17_TagsAsCategories ==
  /\ bd.pc = "done"
  /\ \E k \in DOMAIN bd.doc.programmes :
       /\ Len(bd.doc.programmes[k].categories) >= 3
       /\ bd.doc.programmes[k].categories[1] = "Film"
       /\ bd.doc.programmes[k].categories[3] = "HD"
  /\ \E k \in DOMAIN bd.data :
       ChannelRowOf(bd.data[k].row_id).tags = <<>> /\ bd.data[k].programmes # <<>>

\* a document with the time-based part of every artwork URL blanked
StripBuster(doc) ==
  [doc EXCEPT !.channels = [k \in DOMAIN doc.channels |->
                              [doc.channels[k] EXCEPT !.icon.cache_buster = 0]]]

Cex_C19_RoundTrip ==
  DocReady =>
    \A k \in DOMAIN bd.data :
      LET e == bd.data[k]
          els == ElementsOf(bd.doc, e.channel)
      IN e.resolved =>
           /\ Len(els) = Len(e.rows)
           /\ \A j \in DOMAIN els : ParseProgramme(els[j]) = e.rows[j].data

\* C20: whoever reads epg.xml finds a complete document in it.
Cex_C20_AtomicWrite == bd.out.complete

(***************************************************************************)
(* Deletion, anomalies and absent values.                                  *)
(***************************************************************************)
\* C21: a step in which delete_epg removes a source leaves no channel row and no programme
\* row that an import of that source stored, leaves no cached file of it, and leaves the
\* channel and programme rows of every other source as they were.
Cex_C21_DeleteCascades ==
  [][\A s \in Sources :
       (s \in epgs /\ s \notin epgs') =>
         /\ \A c \in epgChannels' : c.epg_id # s
         /\ \A p \in programmes' : p.src # s
         /\ file'[s] = NoFile
         /\ \A t \in Sources \ {s} : RowsOf(t)' = RowsOf(t)]_vars

\* C22: no build ends in an exception because of one channel: a build that has read an
\* enabled channel without a name still generates the document.
Cex_C22_AnomalySkipped == bd.pc # "failed"

\* C23: no channel row holds an empty string as the icon of a channel whose element has no
\* <icon> child, a programme element without <title> child is stored with no title, and no
\* <programme> element of the document has a <title> child without text.
Cex_C23_AbsentNotEmpty ==
  /\ \A c \in epgChannels : c.icon_url # ""
  /\ \A d \in served : \A i \in DOMAIN DocProgrammes(d) :
       DocProgrammes(d)[i].title = Null => ParseProgramme(DocProgrammes(d)[i]).title = Null
  /\ DocReady => \A k \in DOMAIN bd.doc.programmes : bd.doc.programmes[k].title # ""

(***************************************************************************)
(* Concurrency of enrichment and ingestion.                                *)
(***************************************************************************)
\* C24: while the provider request of a task is in flight no task holds the cache lock, so
\* the first step of another task and the handling of another response can take it.
Thm_C24_LockNotHeldInFlight == InFlight # {} => en.lock = 0

Wit_C24_LockNotHeldInFlight ==
  /\ Cardinality(InFlight) >= 2
  /\ \E i \in Tasks : en.tpc[i] = "done" /\ en.called[i] # {}
  /\ en.cache.tmdb # EmptyMap \/ en.cache.google # EmptyMap

\* C25: a step of an import of one source changes no channel row and no programme row of
\* another source; and when an import that was alone on its source has completed, whatever
\* imports of other sources ran beside it, the source holds the rows of its document as it
\* does after an import that ran alone.
Cex_C25_SourcesIndependent ==
  /\ [][\A r \in Runs :
          (runs[r].pc \in MidPcs /\ runs'[r].pc # runs[r].pc) =>
            \A t \in Sources \ {Cur(r)} : RowsOf(t)' = RowsOf(t)]_vars
  /\ [](\A s \in Sources :
          (NoActive(s) /\ history[s] # <<>>) =>
            HoldsDocument(s, history[s][Len(history[s])].doc, history[s][Len(history[s])].batch))

\* C26: when two imports of one source that ran side by side have both ended, no source was
\* deleted and no fetch, parse or storage failure occurred, both have returned normally and
\* the source holds the rows of one document, all inserted by one of the two imports.
Cex_C26_OverlapSameSource ==
  \A s \in Sources :
    (/\ bd.deleted = {}
     /\ \A r \in Runs : runs[r].plan = <<s>> /\ runs[r].pc \in {"done", "failed"}
     /\ \A r \in Runs : runs[r].pc = "failed" => runs[r].cause \notin {"fetch", "parse", "storage"})
    => /\ \A r \in Runs : runs[r].pc = "done"
       /\ \E b \in 1..quota : \E d \in served : HoldsDocument(s, d, b)
       /\ \A p \in programmes : p.src = s => p \in RowsOf(s).progs

\* the lookup of provider prov for task i was attempted: its request went out, or the value
\* was taken from the cache of the run
Attempted(i, prov) == prov \in en.called[i] \/ en.orig[i].title \in DOMAIN en.cache[prov]

\* C27: when update_programmes_concurrently has returned, the enabled lookups were
\* attempted for every programme of the batch that came without subtitle, description and
\* icon, whatever its stored categories are (None included): the structured lookup when it
\* is enabled, the image search when only it is enabled.
Cex_C27_EveryBareProgrammeLookedUp ==
  en.phase = "returned" =>
    \A i \in Tasks :
      TmdbCandidate(en.orig[i]) =>
        /\ en.settings.tmdb => Attempted(i, "tmdb")
        /\ (~en.settings.tmdb /\ en.settings.google) => Attempted(i, "google")

\* in this step task i receives, from the request or from the cache, a structured record
\* without poster reference and goes on to the image-search stage
ReceivesRecordWithoutPoster(i) ==
  /\ i \in DOMAIN en'.tpc
  /\ \/ en.tpc[i] = "tmdbReq"
     \/ en.tpc[i] \in {"new", "tmdbWait"} /\ TmdbCandidate(en.progs[i]) /\ en.settings.tmdb
  /\ en'.tpc[i] \in {"googleReq", "googleWait", "done"}
  /\ en.progs[i].title \in DOMAIN en'.cache.tmdb
  /\ en'.cache.tmdb[en.progs[i].title].kind = "result"
  /\ en'.cache.tmdb[en.progs[i].title].poster_path = Null

\* C28: a structured record without poster reference does not set the icon of the
\* programme, and the image search, when enabled, is consulted for it (request, wait for a
\* permit, or value taken from the cache); when it is disabled the icon stays as it was.
Cex_C28_NoPosterNoIcon ==
  [][\A i \in Tasks :
       ReceivesRecordWithoutPoster(i) =>
         /\ en'.progs[i].icon_url # PosterUrl(Null)
         /\ en.settings.google =>
              \/ en'.tpc[i] \in {"googleReq", "googleWait"}
              \/ en.progs[i].title \in DOMAIN en.cache.google
         /\ ~en.settings.google => en'.progs[i].icon_url = en.progs[i].icon_url]_vars

\* C29: provided every provider request ends, every call of
\* update_programmes_concurrently returns, batches larger than the semaphore and batches
\* with repeated titles included; when it has returned every task has ended (returned or
\* raised), none is left waiting for a permit or for a response, all permits of the
\* semaphore are back and the cache lock is free.
Thm_C29_Terminates ==
  /\ (en.phase = "running") ~> (en.phase = "returned")
  /\ [](en.phase = "returned" =>
          /\ \A i \in Tasks : en.tpc[i] \in {"done", "raised"}
          /\ en.sem = SemaphoreLimit
          /\ en.lock = 0)

\* a batch of more programmes than the semaphore has permits has returned; two of its
\* programmes carry the same title and both sent a request
Wit_C29_Terminates ==
  /\ en.phase = "returned"
  /\ Len(en.progs) > SemaphoreLimit
  /\ \E i \in Tasks : \E j \in Tasks :
       i # j /\ en.progs[i].title = en.progs[j].title /\ en.called[i] # {} /\ en.called[j] # {}

\* C30: a handler of a channel route that has answered success has queued the background
\* channel update tasks, and has done so after the last change it applied.
Cex_C30_MutationQueuesUpdate ==
  \A q \in Requests :
    (api.req[q].pc = "returned" /\ api.req[q].resp = "success") =>
      /\ api.req[q].log # <<>>
      /\ api.req[q].log[Len(api.req[q].log)] = Queue


====
